---- MODULE Spec2Model ----
(***************************************************************************)
(* Mergington High School API (src/src/app.py): the session store, the     *)
(* teacher authenticator and the activity roster, with one action per     *)
(* HTTP handler.                                                           *)
(*                                                                         *)
(* Python values that can reach a response body or a cookie are strings:   *)
(* None, True and False are the three marked strings below, so that the    *)
(* value of `x and y` (which is x or y, not a bool) is kept as it is.      *)
(***************************************************************************)
EXTENDS Integers, Sequences, FiniteSets, TLC

VARIABLES
    active_sessions,   \* dict session_id -> username            (app.py:25)
    activities,        \* dict activity name -> activity record  (app.py:36-91)
    teachers_json,     \* the file teachers.json beside app.py   (app.py:30)
    issued,            \* the values uuid.uuid4() has returned   (app.py:116)
    resp,              \* the last request handled in one step, and its response
    threads            \* the worker threads' requests in progress (app.py:153,179)

vars == <<active_sessions, activities, teachers_json, issued, resp, threads>>

----------------------------------------------------------------------------
(* Python values *)

PyNone == "<None>"
PyTrue == "<True>"
PyFalse == "<False>"

\* bool(v) for the values that occur: None, False and "" are falsy.
Truthy(v) == v \notin {PyNone, PyFalse, ""}

\* `x and y`: x when x is falsy, else y.
PyAnd(x, y) == IF Truthy(x) THEN y ELSE x

\* a Python bool from a comparison or a membership test.
PyBool(b) == IF b THEN PyTrue ELSE PyFalse

\* A comparison with the last element only, where `e in l` is meant.
list_contains_last(l, e) == Len(l) > 0 /\ l[Len(l)] = e

\* `e in l` for a list l.
list_contains(l, e) == \E i \in 1..Len(l) : l[i] = e

\* l.insert(0, e) where l.append(e) is meant.
list_append_front(l, e) == <<e>> \o l

\* l.append(e)
list_append(l, e) == Append(l, e)

\* l.pop(0) where l.remove(e) is meant.
list_remove_head(l, e) == Tail(l)


\* l.remove(e): removes the first element equal to e (e is in l).
list_remove(l, e) ==
    LET i == CHOOSE k \in 1..Len(l) :
                 l[k] = e /\ \A j \in 1..(k - 1) : l[j] # e
    IN  SubSeq(l, 1, i - 1) \o SubSeq(l, i + 1, Len(l))

----------------------------------------------------------------------------
(* Bounds and inputs *)

\* uuid.uuid4() is drawn at most MaxLogins times.
MaxLogins == 2

Uuid(i) == "uuid-" \o ToString(i)
Uuids == {Uuid(i) : i \in 1..MaxLogins}

\* request.cookies.get("session_id"): None (no cookie), "" or a token.
CookieValues == {PyNone, ""} \cup Uuids

Usernames == {"mrodriguez", "mchen", "nonexistent"}
Passwords == {"pass123", "secure456"}

ActivityNames == {"Chess Club", "Knitting Club"}
Emails == {"michael@mergington.edu", "new@mergington.edu"}

\* teachers.json: absent, or {"teachers": [...]}.
TeachersFiles ==
    { [exists |-> FALSE, teachers |-> <<>>],
      [exists |-> TRUE,
       teachers |-> << [username |-> "mrodriguez", password |-> "pass123"] >>],
      [exists |-> TRUE,
       teachers |-> << [username |-> "mrodriguez", password |-> "pass123"],
                       [username |-> "mchen", password |-> "secure456"] >>] }

----------------------------------------------------------------------------
(* Module-level state of app.py *)

seed_activities ==
    [n \in {"Chess Club", "Programming Class", "Gym Class", "Soccer Team",
            "Basketball Team", "Art Club", "Drama Club", "Math Club",
            "Debate Team"} |->
       CASE n = "Chess Club" ->
              [description |-> "Learn strategies and compete in chess tournaments",
               schedule |-> "Fridays, 3:30 PM - 5:00 PM",
               max_participants |-> 12,
               participants |-> <<"michael@mergington.edu", "daniel@mergington.edu">>]
         [] n = "Programming Class" ->
              [description |-> "Learn programming fundamentals and build software projects",
               schedule |-> "Tuesdays and Thursdays, 3:30 PM - 4:30 PM",
               max_participants |-> 20,
               participants |-> <<"emma@mergington.edu", "sophia@mergington.edu">>]
         [] n = "Gym Class" ->
              [description |-> "Physical education and sports activities",
               schedule |-> "Mondays, Wednesdays, Fridays, 2:00 PM - 3:00 PM",
               max_participants |-> 30,
               participants |-> <<"john@mergington.edu", "olivia@mergington.edu">>]
         [] n = "Soccer Team" ->
              [description |-> "Join the school soccer team and compete in matches",
               schedule |-> "Tuesdays and Thursdays, 4:00 PM - 5:30 PM",
               max_participants |-> 22,
               participants |-> <<"liam@mergington.edu", "noah@mergington.edu">>]
         [] n = "Basketball Team" ->
              [description |-> "Practice and play basketball with the school team",
               schedule |-> "Wednesdays and Fridays, 3:30 PM - 5:00 PM",
               max_participants |-> 15,
               participants |-> <<"ava@mergington.edu", "mia@mergington.edu">>]
         [] n = "Art Club" ->
              [description |-> "Explore your creativity through painting and drawing",
               schedule |-> "Thursdays, 3:30 PM - 5:00 PM",
               max_participants |-> 15,
               participants |-> <<"amelia@mergington.edu", "harper@mergington.edu">>]
         [] n = "Drama Club" ->
              [description |-> "Act, direct, and produce plays and performances",
               schedule |-> "Mondays and Wednesdays, 4:00 PM - 5:30 PM",
               max_participants |-> 20,
               participants |-> <<"ella@mergington.edu", "scarlett@mergington.edu">>]
         [] n = "Math Club" ->
              [description |-> "Solve challenging problems and participate in math competitions",
               schedule |-> "Tuesdays, 3:30 PM - 4:30 PM",
               max_participants |-> 10,
               participants |-> <<"james@mergington.edu", "benjamin@mergington.edu">>]
         [] n = "Debate Team" ->
              [description |-> "Develop public speaking and argumentation skills",
               schedule |-> "Fridays, 4:00 PM - 5:30 PM",
               max_participants |-> 12,
               participants |-> <<"charlotte@mergington.edu", "henry@mergington.edu">>]]

\* A loader that keeps only the first record of the file.
load_teachers_first_record ==
    IF teachers_json.exists /\ Len(teachers_json.teachers) > 0
    THEN <<teachers_json.teachers[1]>>
    ELSE <<>>


\* load_teachers(): the list in teachers.json, [] when the file is absent.
load_teachers == IF teachers_json.exists THEN teachers_json.teachers ELSE <<>>

\* The record kept of a request and its response; fields a request or a
\* response does not have are None.
NoResp ==
    [op |-> "none", session_id |-> PyNone,
     activity_name |-> PyNone, email |-> PyNone,
     username |-> PyNone, password |-> PyNone,
     status |-> 0, authenticated |-> PyNone, body_username |-> PyNone,
     set_cookie |-> PyNone]

\* A response to the request `req` (the fields of NoResp it sets).
Response(req, status, body) ==
    [f \in DOMAIN NoResp |->
        IF f = "status" THEN status
        ELSE IF f \in DOMAIN body THEN body[f]
        ELSE IF f \in DOMAIN req THEN req[f]
        ELSE NoResp[f]]

\* FastAPI runs a handler declared with `def` on a thread of its pool.
NumThreads == 2
Threads == 1..NumThreads

\* A thread with no request: pc is the line it is at, status its last response.
IdleThread ==
    [pc |-> "idle", op |-> "none", session_id |-> PyNone,
     activity_name |-> PyNone, email |-> PyNone, status |-> 0]

Init ==
    /\ active_sessions = <<>>
    /\ activities = seed_activities
    /\ teachers_json \in TeachersFiles
    /\ issued = {}
    /\ resp = NoResp
    /\ threads = [t \in Threads |-> IdleThread]

----------------------------------------------------------------------------
(* Helpers of app.py *)

\* A check that the request carries a cookie at all, not that it names a session.
is_teacher_authenticated_any_cookie(session_id) == PyBool(session_id # PyNone)

\* is_teacher_authenticated(request), session_id = request.cookies.get(...)
is_teacher_authenticated(session_id) ==
    PyAnd(session_id, PyBool(session_id \in DOMAIN active_sessions))

\* A match on the username alone.
authenticate_teacher_username_only(username, password) ==
    \E i \in 1..Len(load_teachers) : load_teachers[i].username = username

\* authenticate_teacher(username, password)
authenticate_teacher(username, password) ==
    LET teachers == load_teachers
    IN  \E i \in 1..Len(teachers) :
            /\ teachers[i].username = username
            /\ teachers[i].password = password

\* A login that ends the teacher's earlier sessions (one session per teacher).
session_store_single(sessions, session_id, username) ==
    [t \in {k \in DOMAIN sessions : sessions[k] # username} \cup {session_id} |->
        IF t = session_id THEN username ELSE sessions[t]]


\* active_sessions[session_id] = username
session_store(sessions, session_id, username) ==
    [t \in (DOMAIN sessions) \cup {session_id} |->
        IF t = session_id THEN username ELSE sessions[t]]

\* active_sessions.clear() where one key is to be deleted.
session_delete_all(sessions, session_id) ==
    IF session_id \in DOMAIN sessions THEN <<>> ELSE sessions

\* A logout that ends every session of the teacher who logs out.
session_delete_teacher(sessions, session_id) ==
    IF session_id \in DOMAIN sessions
    THEN [t \in {k \in DOMAIN sessions : sessions[k] # sessions[session_id]} |->
             sessions[t]]
    ELSE sessions


\* if session_id and session_id in active_sessions: del active_sessions[session_id]
session_delete(sessions, session_id) ==
    IF Truthy(PyAnd(session_id, PyBool(session_id \in DOMAIN sessions)))
    THEN [t \in (DOMAIN sessions) \ {session_id} |-> sessions[t]]
    ELSE sessions

\* signup_for_activity without its "already signed up" guard.
signup_status_no_conflict(session_id, activity_name, email) ==
    IF ~Truthy(PyAnd(session_id, PyBool(session_id \in DOMAIN active_sessions)))
    THEN 401
    ELSE IF activity_name \notin DOMAIN activities THEN 404
    ELSE 200

\* signup_for_activity with a capacity guard added after the other three.
signup_status_capacity_checked(session_id, activity_name, email) ==
    IF signup_status_no_conflict(session_id, activity_name, email) # 200
    THEN signup_status_no_conflict(session_id, activity_name, email)
    ELSE IF list_contains(activities[activity_name].participants, email) THEN 400
    ELSE IF Len(activities[activity_name].participants)
                >= activities[activity_name].max_participants THEN 400
    ELSE 200

\* The guards of signup_for_activity in order; 200 when all pass.
signup_status(session_id, activity_name, email) ==
    IF ~Truthy(is_teacher_authenticated(session_id)) THEN 401
    ELSE IF activity_name \notin DOMAIN activities THEN 404
    ELSE IF list_contains(activities[activity_name].participants, email) THEN 400
    ELSE 200

\* unregister_from_activity looking the activity up before the session.
unregister_status_lookup_first(session_id, activity_name, email) ==
    IF activity_name \notin DOMAIN activities THEN 404
    ELSE IF ~Truthy(is_teacher_authenticated(session_id)) THEN 401
    ELSE IF ~list_contains(activities[activity_name].participants, email) THEN 400
    ELSE 200


\* The guards of unregister_from_activity in order; 200 when all pass.
unregister_status(session_id, activity_name, email) ==
    IF ~Truthy(is_teacher_authenticated(session_id)) THEN 401
    ELSE IF activity_name \notin DOMAIN activities THEN 404
    ELSE IF ~list_contains(activities[activity_name].participants, email) THEN 400
    ELSE 200

----------------------------------------------------------------------------
(* Handlers.  session_id is request.cookies.get("session_id"): the request's
   cookie, None when it carries none. *)

\* POST /login
login(username, password) ==
    LET req == [op |-> "login", username |-> username, password |-> password]
    IN  IF authenticate_teacher(username, password)
        THEN \E session_id \in Uuids \ issued :
                /\ issued' = issued \cup {session_id}
                /\ active_sessions' =
                       session_store(active_sessions, session_id, username)
                /\ resp' = Response(req, 200,
                               [authenticated |-> PyTrue, set_cookie |-> session_id])
                /\ UNCHANGED <<activities, teachers_json, threads>>
        ELSE /\ resp' = Response(req, 401, <<>>)
             /\ UNCHANGED <<active_sessions, activities, teachers_json, issued, threads>>

\* POST /logout
logout(session_id) ==
    LET req == [op |-> "logout", session_id |-> session_id]
    IN  /\ active_sessions' = session_delete(active_sessions, session_id)
        /\ resp' = Response(req, 200,
                       [authenticated |-> PyFalse, set_cookie |-> "<deleted>"])
        /\ UNCHANGED <<activities, teachers_json, issued, threads>>

\* GET /auth/status
auth_status(session_id) ==
    LET req == [op |-> "auth_status", session_id |-> session_id]
        authenticated == is_teacher_authenticated(session_id)
        username == IF Truthy(authenticated)
                    THEN IF session_id \in DOMAIN active_sessions
                         THEN active_sessions[session_id] ELSE PyNone
                    ELSE PyNone
    IN  /\ resp' = Response(req, 200,
                       [authenticated |-> authenticated, body_username |-> username])
        /\ UNCHANGED <<active_sessions, activities, teachers_json, issued, threads>>

\* GET /activities
get_activities ==
    /\ resp' = Response([op |-> "get_activities"], 200, <<>>)
    /\ UNCHANGED <<active_sessions, activities, teachers_json, issued, threads>>

\* signup_for_activity that enters an unknown activity_name into activities
\* (activities.setdefault(...)) instead of answering 404.
signup_for_activity_creates(session_id, activity_name, email) ==
    LET req == [op |-> "signup", session_id |-> session_id,
                activity_name |-> activity_name, email |-> email]
        status == signup_status_no_conflict(session_id, activity_name, email)
    IN  /\ resp' = Response(req, IF status = 404 THEN 200 ELSE status, <<>>)
        /\ activities' =
              IF status = 404
              THEN [n \in (DOMAIN activities) \cup {activity_name} |->
                      IF n = activity_name
                      THEN [description |-> "", schedule |-> "",
                            max_participants |-> 0, participants |-> <<email>>]
                      ELSE activities[n]]
              ELSE activities
        /\ UNCHANGED <<active_sessions, teachers_json, issued, threads>>


\* signup_for_activity appending before it looks for the email.
signup_for_activity_append_first(session_id, activity_name, email) ==
    LET req == [op |-> "signup", session_id |-> session_id,
                activity_name |-> activity_name, email |-> email]
        status == signup_status(session_id, activity_name, email)
    IN  /\ resp' = Response(req, status, <<>>)
        /\ activities' =
              IF status \in {200, 400}
              THEN [activities EXCEPT ![activity_name].participants =
                                          list_append(@, email)]
              ELSE activities
        /\ UNCHANGED <<active_sessions, teachers_json, issued, threads>>


\* signup_for_activity appending to every activity's list (one shared list).
signup_for_activity_shared_list(session_id, activity_name, email) ==
    LET req == [op |-> "signup", session_id |-> session_id,
                activity_name |-> activity_name, email |-> email]
        status == signup_status(session_id, activity_name, email)
    IN  /\ resp' = Response(req, status, <<>>)
        /\ activities' =
              IF status = 200
              THEN [n \in DOMAIN activities |->
                      [activities[n] EXCEPT !.participants = list_append(@, email)]]
              ELSE activities
        /\ UNCHANGED <<active_sessions, teachers_json, issued, threads>>


\* POST /activities/{activity_name}/signup
signup_for_activity(session_id, activity_name, email) ==
    LET req == [op |-> "signup", session_id |-> session_id,
                activity_name |-> activity_name, email |-> email]
        status == signup_status(session_id, activity_name, email)
    IN  /\ resp' = Response(req, status, <<>>)
        /\ activities' =
              IF status = 200
              THEN [activities EXCEPT ![activity_name].participants =
                                          list_append(@, email)]
              ELSE activities
        /\ UNCHANGED <<active_sessions, teachers_json, issued, threads>>

\* DELETE /activities/{activity_name}/unregister
unregister_from_activity(session_id, activity_name, email) ==
    LET req == [op |-> "unregister", session_id |-> session_id,
                activity_name |-> activity_name, email |-> email]
        status == unregister_status(session_id, activity_name, email)
    IN  /\ resp' = Response(req, status, <<>>)
        /\ activities' =
              IF status = 200
              THEN [activities EXCEPT ![activity_name].participants =
                                          list_remove(@, email)]
              ELSE activities
        /\ UNCHANGED <<active_sessions, teachers_json, issued, threads>>

----------------------------------------------------------------------------
(* The environment *)

\* teachers.json is rewritten or removed while the process runs.
teachers_json_replaced(f) ==
    /\ f # teachers_json
    /\ teachers_json' = f
    /\ UNCHANGED <<active_sessions, activities, issued, resp, threads>>

Next ==
    \/ \E u \in Usernames, p \in Passwords : login(u, p)
    \/ \E s \in CookieValues : logout(s)
    \/ \E s \in CookieValues : auth_status(s)
    \/ get_activities
    \/ \E s \in CookieValues, a \in ActivityNames, e \in Emails :
           signup_for_activity(s, a, e)
    \/ \E s \in CookieValues, a \in ActivityNames, e \in Emails :
           unregister_from_activity(s, a, e)
    \/ \E f \in TeachersFiles : teachers_json_replaced(f)

Spec == Init /\ [][Next]_vars

----------------------------------------------------------------------------
(* The same handlers, driven by a teacher who fills one activity: students *)
(* are signed up for Math Club (max_participants 10, two seeded) in order, *)
(* and only the student signed up last is signed up again or unregistered. *)

\* The number of further students there are to sign up.
NumStudents == 9

Student(i) == "student" \o ToString(i) \o "@mergington.edu"
Students == {Student(i) : i \in 1..NumStudents}

FilledActivity == "Math Club"

\* The students not yet on the roster; the next to sign up is the first.
Waiting == {i \in 1..NumStudents :
               ~list_contains(activities[FilledActivity].participants, Student(i))}

NextStudent == {Student(i) : i \in {j \in Waiting : \A k \in Waiting : j <= k}}

LastStudent ==
    LET l == activities[FilledActivity].participants
    IN  IF Len(l) > 0 /\ l[Len(l)] \in Students THEN {l[Len(l)]} ELSE {}

NextFill ==
    \/ \E u \in Usernames, p \in Passwords : login(u, p)
    \/ \E s \in CookieValues : logout(s)
    \/ \E s \in CookieValues : auth_status(s)
    \/ get_activities
    \/ \E s \in CookieValues, e \in NextStudent \cup LastStudent :
           signup_for_activity(s, FilledActivity, e)
    \/ \E s \in CookieValues, e \in LastStudent :
           unregister_from_activity(s, FilledActivity, e)
    \/ \E f \in TeachersFiles : teachers_json_replaced(f)

SpecFill == Init /\ [][NextFill]_vars

----------------------------------------------------------------------------
(* The roster handlers as FastAPI runs them.  signup_for_activity and       *)
(* unregister_from_activity are declared with `def`, not `async def`, so    *)
(* each request runs on a thread of the pool and another thread can run     *)
(* between any two lines of a handler.  A step is one line that reads or    *)
(* writes the shared dicts.                                                 *)

ThreadEmails == {"new@mergington.edu"}

\* The response of thread t: the thread is free again and keeps the status.
thread_respond(t, status) ==
    threads' = [threads EXCEPT ![t] = [IdleThread EXCEPT !.status = status]]

thread_goto(t, pc) == threads' = [threads EXCEPT ![t].pc = pc]

\* A request is handed to a free thread.
thread_request(t, op, session_id, activity_name, email) ==
    /\ threads[t].pc = "idle"
    /\ threads' = [threads EXCEPT ![t] =
                      [pc |-> "auth", op |-> op, session_id |-> session_id,
                       activity_name |-> activity_name, email |-> email,
                       status |-> 0]]
    /\ UNCHANGED <<active_sessions, activities, teachers_json, issued, resp>>

\* if not is_teacher_authenticated(request): raise HTTPException(401)
thread_check_auth(t) ==
    /\ threads[t].pc = "auth"
    /\ IF ~Truthy(is_teacher_authenticated(threads[t].session_id))
       THEN thread_respond(t, 401)
       ELSE thread_goto(t, "exists")
    /\ UNCHANGED <<active_sessions, activities, teachers_json, issued, resp>>

\* if activity_name not in activities: raise HTTPException(404)
thread_check_exists(t) ==
    /\ threads[t].pc = "exists"
    /\ IF threads[t].activity_name \notin DOMAIN activities
       THEN thread_respond(t, 404)
       ELSE thread_goto(t, "member")
    /\ UNCHANGED <<active_sessions, activities, teachers_json, issued, resp>>

\* signup: if email in activity["participants"]: raise HTTPException(400)
\* unregister: if email not in activity["participants"]: raise HTTPException(400)
thread_check_member(t) ==
    /\ threads[t].pc = "member"
    /\ LET present == list_contains(
                          activities[threads[t].activity_name].participants,
                          threads[t].email)
       IN  IF present <=> (threads[t].op = "signup")
           THEN thread_respond(t, 400)
           ELSE thread_goto(t, "mutate")
    /\ UNCHANGED <<active_sessions, activities, teachers_json, issued, resp>>

\* signup: activity["participants"].append(email), then the 200 response.
\* unregister: activity["participants"].remove(email), then the 200 response;
\* remove raises ValueError when the email is no longer there, which no
\* handler catches: the response is 500.
thread_mutate(t) ==
    /\ threads[t].pc = "mutate"
    /\ LET a == threads[t].activity_name
           e == threads[t].email
           l == activities[a].participants
       IN  IF threads[t].op = "signup"
           THEN /\ activities' = [activities EXCEPT ![a].participants =
                                                       list_append(l, e)]
                /\ thread_respond(t, 200)
           ELSE IF list_contains(l, e)
           THEN /\ activities' = [activities EXCEPT ![a].participants =
                                                       list_remove(l, e)]
                /\ thread_respond(t, 200)
           ELSE /\ activities' = activities
                /\ thread_respond(t, 500)
    /\ UNCHANGED <<active_sessions, teachers_json, issued, resp>>

NextThreads ==
    \/ \E u \in Usernames, p \in Passwords : login(u, p)
    \/ \E t \in Threads, op \in {"signup", "unregister"}, s \in CookieValues,
          a \in ActivityNames, e \in ThreadEmails :
           thread_request(t, op, s, a, e)
    \/ \E t \in Threads : thread_check_auth(t)
    \/ \E t \in Threads : thread_check_exists(t)
    \/ \E t \in Threads : thread_check_member(t)
    \/ \E t \in Threads : thread_mutate(t)

SpecThreads == Init /\ [][NextThreads]_vars

----------------------------------------------------------------------------

(* Vocabulary of the properties *)

\* A step that handles a request: resp' is that request and its response.
\* (The only other step rewrites teachers.json and leaves resp alone.)
RequestStep == teachers_json' = teachers_json

\* The step handles a signup or an unregister request.
RosterRequest == RequestStep /\ resp'.op \in {"signup", "unregister"}

participants(a) == activities[a].participants

Occurrences(l, e) == Cardinality({i \in 1..Len(l) : l[i] = e})

IsMember(l, e) == Occurrences(l, e) > 0

----------------------------------------------------------------------------
\* C1: a signup or unregister request whose session cookie is missing or is
\* not a key of active_sessions gets 401 and changes no participants list,
\* whether or not the activity exists or the email is in it; and any step
\* that changes a participants list is a signup or unregister request whose
\* cookie was a key of active_sessions when it was handled.
C1_UnauthorizedNeverMutates ==
    [][ /\ (RosterRequest /\ resp'.session_id \notin DOMAIN active_sessions)
            => /\ resp'.status = 401
               /\ \A a \in DOMAIN activities :
                      activities'[a].participants = activities[a].participants
        /\ (\E a \in DOMAIN activities :
                activities'[a].participants # activities[a].participants)
            => /\ RosterRequest
               /\ resp'.session_id \in DOMAIN active_sessions
      ]_vars

\* A rejected signup that would have succeeded with a session: the activity
\* exists and the email is not in it.
C1_Witness ==
    /\ resp.op = "signup"
    /\ resp.status = 401
    /\ resp.activity_name \in DOMAIN activities
    /\ ~IsMember(participants(resp.activity_name), resp.email)

\* C2: for a known activity A and an email E not in A.participants, a signup
\* with a valid session returns 200 and afterwards A.participants is one
\* longer, has E exactly once, as its last element, and keeps every previous
\* participant at its previous position.
C2_SignupAppends ==
    [][ (/\ RequestStep
         /\ resp'.op = "signup"
         /\ resp'.session_id \in DOMAIN active_sessions
         /\ resp'.activity_name \in DOMAIN activities
         /\ ~IsMember(participants(resp'.activity_name), resp'.email))
        => LET old == participants(resp'.activity_name)
               new == activities'[resp'.activity_name].participants
           IN  /\ resp'.status = 200
               /\ Len(new) = Len(old) + 1
               /\ new[Len(new)] = resp'.email
               /\ Occurrences(new, resp'.email) = 1
               /\ \A i \in 1..Len(old) : new[i] = old[i]
      ]_vars

C2_Witness ==
    /\ resp.op = "signup"
    /\ resp.status = 200
    /\ Len(participants(resp.activity_name)) = 3
    /\ participants(resp.activity_name)[3] = resp.email

\* C3: signing up the same email E for the same activity A twice with a valid
\* session yields 200 then 400: a successful signup leaves E in
\* A.participants, E stays there until a successful unregister(A,E), and a
\* signup(A,E) with a valid session while E is there returns 400 and leaves
\* A.participants unchanged.
C3_SecondSignupConflicts ==
    [][ /\ (RequestStep /\ resp'.op = "signup" /\ resp'.status = 200)
            => IsMember(activities'[resp'.activity_name].participants, resp'.email)
        /\ \A a \in {n \in DOMAIN activities : activities'[n] # activities[n]} :
             \A e \in {participants(a)[i] : i \in 1..Len(participants(a))} :
               ~IsMember(activities'[a].participants, e)
               => /\ RequestStep
                  /\ resp'.op = "unregister"
                  /\ resp'.status = 200
                  /\ resp'.activity_name = a
                  /\ resp'.email = e
        /\ (/\ RequestStep
            /\ resp'.op = "signup"
            /\ resp'.session_id \in DOMAIN active_sessions
            /\ resp'.activity_name \in DOMAIN activities
            /\ IsMember(participants(resp'.activity_name), resp'.email))
            => /\ resp'.status = 400
               /\ activities'[resp'.activity_name].participants
                      = participants(resp'.activity_name)
        /\ (/\ resp.op = "signup" /\ resp.status = 200
            /\ RequestStep
            /\ resp'.op = "signup"
            /\ resp'.session_id \in DOMAIN active_sessions
            /\ resp'.activity_name = resp.activity_name
            /\ resp'.email = resp.email)
            => resp'.status = 400
      ]_vars

\* The second signup of an email that the first signup put on the roster.
C3_Witness ==
    /\ resp.op = "signup"
    /\ resp.status = 400
    /\ resp.email = "new@mergington.edu"
    /\ participants(resp.activity_name)
           = Append(seed_activities[resp.activity_name].participants, resp.email)

\* C4: for a known activity A and an email E that was not in A.participants,
\* an unregister(A,E) with a valid session right after the successful
\* signup(A,E) returns 200 and removes exactly the entry the signup appended,
\* so A.participants is the sequence it was before the signup; an
\* unregister(A,E) with a valid session right after that one returns 400 and
\* changes nothing.
C4_UnregisterInvertsSignup ==
    [][ /\ (/\ resp.op = "signup" /\ resp.status = 200
            /\ RequestStep
            /\ resp'.op = "unregister"
            /\ resp'.session_id \in DOMAIN active_sessions
            /\ resp'.activity_name = resp.activity_name
            /\ resp'.email = resp.email)
            => /\ resp'.status = 200
               /\ participants(resp.activity_name)
                      = Append(activities'[resp.activity_name].participants,
                               resp.email)
               /\ ~IsMember(activities'[resp.activity_name].participants,
                            resp.email)
        /\ (/\ resp.op = "unregister" /\ resp.status = 200
            /\ RequestStep
            /\ resp'.op = "unregister"
            /\ resp'.session_id \in DOMAIN active_sessions
            /\ resp'.activity_name = resp.activity_name
            /\ resp'.email = resp.email)
            => /\ resp'.status = 400
               /\ activities' = activities
      ]_vars

\* The email that only a signup can have put on the roster has been
\* unregistered, and the roster is the seeded one again.
C4_Witness ==
    /\ resp.op = "unregister"
    /\ resp.status = 200
    /\ resp.email = "new@mergington.edu"
    /\ activities = seed_activities

\* The pair (username, password) is a record of the list load_teachers() returns.
IsTeacherRecord(username, password) ==
    \E i \in 1..Len(load_teachers) :
        load_teachers[i] = [username |-> username, password |-> password]

\* C5: a login whose (username, password) matches no teacher record on both
\* fields returns 401 and leaves active_sessions unchanged; a login with a
\* matching pair returns 200 and issues a token bound to that username, and
\* an auth/status that follows it carrying the issued token reports
\* authenticated true with the username that logged in.
C5_LoginAndStatus ==
    [][ /\ (/\ RequestStep /\ resp'.op = "login"
            /\ ~IsTeacherRecord(resp'.username, resp'.password))
            => /\ resp'.status = 401
               /\ active_sessions' = active_sessions
        /\ (/\ RequestStep /\ resp'.op = "login"
            /\ IsTeacherRecord(resp'.username, resp'.password))
            => /\ resp'.status = 200
               /\ resp'.authenticated = PyTrue
               /\ resp'.set_cookie \in DOMAIN active_sessions'
               /\ active_sessions'[resp'.set_cookie] = resp'.username
        /\ (/\ resp.op = "login" /\ resp.status = 200
            /\ RequestStep
            /\ resp'.op = "auth_status"
            /\ resp'.session_id = resp.set_cookie)
            => /\ resp'.status = 200
               /\ resp'.authenticated = PyTrue
               /\ resp'.body_username = resp.username
      ]_vars

\* auth/status has answered for a session of the second teacher.
C5_Witness ==
    /\ resp.op = "auth_status"
    /\ resp.authenticated = PyTrue
    /\ resp.body_username = "mchen"
    /\ resp.session_id \in issued


\* C6: once logout has been called with a token issued by login, the next
\* auth/status of that client (which now has no session cookie, or still
\* sends the token) reports authenticated false with username null; every
\* signup or unregister carrying a logged-out token returns 401; and a
\* logged-out token never becomes a key of active_sessions again.
C6_LogoutInvalidates ==
    [][ /\ (/\ resp.op = "logout" /\ resp.session_id \in issued
            /\ RequestStep
            /\ resp'.op = "auth_status"
            /\ resp'.session_id \in {PyNone, resp.session_id})
            => /\ resp'.authenticated = PyFalse
               /\ resp'.body_username = PyNone
        /\ (RosterRequest /\ resp'.session_id \in issued \ DOMAIN active_sessions)
            => resp'.status = 401
        /\ \A t \in issued \ DOMAIN active_sessions :
               t \notin DOMAIN active_sessions'
      ]_vars

\* C7: the authenticated field of auth/status is a boolean, true exactly
\* when the request's session cookie is a key of active_sessions and false
\* otherwise, also for a request with no cookie or an empty one.
C7_AuthenticatedIsBoolean ==
    resp.op = "auth_status"
        => /\ resp.authenticated \in {PyTrue, PyFalse}
           /\ resp.authenticated = PyTrue
                  <=> resp.session_id \in DOMAIN active_sessions

\* C8: a logout with any cookie (a session, a logged-out or unknown token,
\* the empty string, none) returns 200; it removes that token's mapping if
\* there is one and keeps every other mapping as it was; and a logout that
\* repeats the previous logout changes nothing.
C8_LogoutIdempotent ==
    [][ /\ (RequestStep /\ resp'.op = "logout")
            => /\ resp'.status = 200
               /\ DOMAIN active_sessions'
                      = (DOMAIN active_sessions) \ {resp'.session_id}
               /\ \A t \in DOMAIN active_sessions' :
                      active_sessions'[t] = active_sessions[t]
               /\ UNCHANGED <<activities, issued>>
        /\ (/\ resp.op = "logout"
            /\ RequestStep
            /\ resp'.op = "logout"
            /\ resp'.session_id = resp.session_id)
            => UNCHANGED vars
      ]_vars

\* One of two sessions has been logged out and the other is still there.
C8_Witness ==
    /\ resp.op = "logout"
    /\ resp.session_id \in issued
    /\ resp.session_id \notin DOMAIN active_sessions
    /\ DOMAIN active_sessions # {}


\* C9: signup does not check capacity.  The status of a signup is 200
\* exactly when the session is valid, the activity is known and the email is
\* not in its participants, whatever their number and max_participants; in
\* particular such a signup made when len(participants) >= max_participants
\* returns 200 and leaves len(participants) > max_participants.
C9_SignupIgnoresCapacity ==
    [][ (RequestStep /\ resp'.op = "signup")
        => LET a == resp'.activity_name
               passes == /\ resp'.session_id \in DOMAIN active_sessions
                         /\ a \in DOMAIN activities
                         /\ ~IsMember(participants(a), resp'.email)
           IN  /\ resp'.status = 200 <=> passes
               /\ (passes /\ Len(participants(a)) >= activities[a].max_participants)
                   => /\ Len(activities'[a].participants) = Len(participants(a)) + 1
                      /\ Len(activities'[a].participants)
                             > activities'[a].max_participants
      ]_vars

\* A signup has succeeded on a full activity: the roster is over capacity.
C9_Witness ==
    /\ resp.op = "signup"
    /\ resp.status = 200
    /\ Len(participants(resp.activity_name))
           > activities[resp.activity_name].max_participants

\* C10: in every state reachable from the seeded activities by login,
\* logout, signup and unregister requests handled one at a time, no
\* activity's participants list holds an email more than once.
C10_NoDuplicateParticipants ==
    \A a \in DOMAIN activities :
        \A i, j \in 1..Len(participants(a)) :
            participants(a)[i] = participants(a)[j] => i = j

\* A seeded participant was unregistered and signed up again, and a further
\* signup of that email was rejected.
C10_Witness ==
    /\ resp.op = "signup"
    /\ resp.status = 400
    /\ resp.email = "michael@mergington.edu"
    /\ participants("Chess Club")[1] # "michael@mergington.edu"

\* C11: in every reachable state the activity names are the seeded ones and
\* each activity has its seeded description, schedule and max_participants;
\* no request, a signup or unregister naming an unknown activity included,
\* creates or deletes an activity or changes its metadata.
C11_ActivitiesFixed ==
    /\ DOMAIN activities = DOMAIN seed_activities
    /\ \A n \in DOMAIN activities :
          /\ DOMAIN activities[n] = DOMAIN seed_activities[n]
          /\ activities[n].description = seed_activities[n].description
          /\ activities[n].schedule = seed_activities[n].schedule
          /\ activities[n].max_participants = seed_activities[n].max_participants

\* A roster has changed, and a signup with a valid session then named an
\* activity that does not exist.
C11_Witness ==
    /\ resp.op = "signup"
    /\ resp.status = 404
    /\ resp.activity_name \notin DOMAIN seed_activities
    /\ activities # seed_activities

\* C12: a signup or unregister request checks its guards and changes the
\* roster as one step, also when requests run concurrently: a signup that
\* returns 200 found its email absent from the list it appended to, so two
\* concurrent signups of one email for one activity never both return 200
\* and never leave the email in participants twice; and an unregister that
\* returns 200 found its email present, so two concurrent unregisters of one
\* email never both return 200.
C12_RosterRequestsAtomic ==
    [][ \A t \in Threads :
          (threads[t].pc = "mutate" /\ threads'[t].status = 200)
          => LET a == threads[t].activity_name
                 e == threads[t].email
             IN  /\ threads[t].op = "signup"
                     => /\ ~IsMember(participants(a), e)
                        /\ Occurrences(activities'[a].participants, e) = 1
                 /\ threads[t].op = "unregister"
                     => /\ IsMember(participants(a), e)
                        /\ ~IsMember(activities'[a].participants, e)
      ]_vars

\* C13: the status of a signup or unregister is that of the first failing
\* guard in the order 401, 404, 400: without a valid session it is 401, also
\* for an unknown activity; with a valid session and an unknown activity it
\* is 404 whatever the email; it is 400 only with a valid session and a
\* known activity; and it is 200 exactly when all three guards pass.
C13_GuardOrder ==
    [][ RosterRequest
        => LET valid == resp'.session_id \in DOMAIN active_sessions
               known == resp'.activity_name \in DOMAIN activities
               present == IsMember(participants(resp'.activity_name), resp'.email)
               conflict == IF resp'.op = "signup" THEN present ELSE ~present
           IN  /\ ~valid => resp'.status = 401
               /\ (valid /\ ~known) => resp'.status = 404
               /\ resp'.status = 400 => (valid /\ known /\ conflict)
               /\ resp'.status = 200 <=> (valid /\ known /\ ~conflict)
               /\ resp'.status \in {401, 404, 400, 200}
      ]_vars

\* An unregister without a session named an unknown activity and got 401.
C13_Witness ==
    /\ resp.op = "unregister"
    /\ resp.status = 401
    /\ resp.activity_name \notin DOMAIN activities

\* C14: a session created by login stays a key of active_sessions, bound to
\* the same username, until a logout request carrying that token: a step
\* that removes or rebinds a session is a logout with that session's token.
C14_SessionUntilLogout ==
    [][ \A t \in DOMAIN active_sessions :
          (t \notin DOMAIN active_sessions'
              \/ active_sessions'[t] # active_sessions[t])
          => /\ RequestStep
             /\ resp'.op = "logout"
             /\ resp'.session_id = t
      ]_vars

\* A teacher has logged in a second time and the first session is still there.
C14_Witness ==
    /\ resp.op = "login"
    /\ resp.status = 200
    /\ \E t \in DOMAIN active_sessions :
          t # resp.set_cookie /\ active_sessions[t] = resp.username

\* C15: a successful login creates exactly one session: its token was not a
\* key of active_sessions before, the number of sessions grows by one and
\* every existing session is kept with its username, earlier sessions of the
\* same teacher included; and a logout removes no session other than the one
\* of its token, so the teacher's other sessions stay valid.
C15_OneNewSessionPerLogin ==
    [][ /\ (RequestStep /\ resp'.op = "login" /\ resp'.status = 200)
            => /\ resp'.set_cookie \notin DOMAIN active_sessions
               /\ resp'.set_cookie \in DOMAIN active_sessions'
               /\ Cardinality(DOMAIN active_sessions')
                      = Cardinality(DOMAIN active_sessions) + 1
               /\ \A t \in DOMAIN active_sessions :
                     /\ t \in DOMAIN active_sessions'
                     /\ active_sessions'[t] = active_sessions[t]
        /\ (RequestStep /\ resp'.op = "logout")
            => \A t \in (DOMAIN active_sessions) \ {resp'.session_id} :
                     /\ t \in DOMAIN active_sessions'
                     /\ active_sessions'[t] = active_sessions[t]
      ]_vars

\* One teacher holds two sessions at once.
C15_Witness ==
    \E t1, t2 \in DOMAIN active_sessions :
        /\ t1 # t2
        /\ active_sessions[t1] = active_sessions[t2]
        /\ resp.op = "login"
        /\ resp.set_cookie = t2

\* C16: a signup or unregister answered with 401, 404 or 400 leaves both
\* stores as they were: no participants list, no other part of activities
\* and no session mapping changes.
C16_ErrorsChangeNothing ==
    [][ (RosterRequest /\ resp'.status \in {401, 404, 400})
        => /\ activities' = activities
           /\ active_sessions' = active_sessions
      ]_vars

\* A signup with a valid session was rejected because the email is on the roster.
C16_Witness ==
    /\ resp.op = "signup"
    /\ resp.status = 400
    /\ resp.session_id \in DOMAIN active_sessions
    /\ IsMember(participants(resp.activity_name), resp.email)

\* C17: a successful unregister(A,E) removes exactly one element: afterwards
\* E is not in A.participants, the list is one shorter, and it is the old
\* list without E's entry, every other participant in the same order,
\* whatever position E held.  Stated of the line that removes and answers
\* 200, in every state the running program reaches.
C17_UnregisterRemovesOne ==
    [][ \A t \in Threads :
          (/\ threads[t].pc = "mutate"
           /\ threads[t].op = "unregister"
           /\ threads'[t].status = 200)
          => LET old == participants(threads[t].activity_name)
                 new == activities'[threads[t].activity_name].participants
                 e == threads[t].email
             IN  /\ ~IsMember(new, e)
                 /\ Len(new) = Len(old) - 1
                 /\ \E i \in 1..Len(old) :
                       /\ old[i] = e
                       /\ \A j \in 1..(i - 1) : new[j] = old[j]
                       /\ \A j \in i..Len(new) : new[j] = old[j + 1]
      ]_vars

\* C18 as stated: the accepted credentials are fixed at startup, so a login
\* with the same (username, password) as the login before it has the same
\* outcome, whatever happened to teachers.json in between.
C18_CredentialsFixedAtStartup ==
    [][ (/\ resp.op = "login"
         /\ RequestStep
         /\ resp'.op = "login"
         /\ resp'.username = resp.username
         /\ resp'.password = resp.password)
        => resp'.status = resp.status
      ]_vars

\* C18 as amended: the accepted credentials are the records teachers.json
\* holds when the login is handled (none when the file is absent): a login
\* returns 200 exactly when its pair is one of them, else 401, whatever
\* sessions exist and whatever earlier logins returned; no request writes
\* the file; so the outcome for a pair is the same at every point at which
\* the file is the same, and a change or removal of the file changes which
\* logins succeed from the next login on.
C18_CredentialsReadAtLogin ==
    [][ /\ (RequestStep /\ resp'.op = "login")
            => LET accepted ==
                       IF teachers_json.exists
                       THEN {teachers_json.teachers[i] :
                                 i \in 1..Len(teachers_json.teachers)}
                       ELSE {}
                   pair == [username |-> resp'.username,
                            password |-> resp'.password]
               IN  /\ resp'.status = IF pair \in accepted THEN 200 ELSE 401
                   /\ resp'.status \in {200, 401}
        /\ resp' # resp => teachers_json' = teachers_json
      ]_vars

\* A pair that logged in before is refused now: the teacher's session is
\* still there, and the file no longer holds the record.
C18_Witness ==
    /\ resp.op = "login"
    /\ resp.status = 401
    /\ resp.username = "mrodriguez"
    /\ resp.password = "pass123"
    /\ \E t \in DOMAIN active_sessions : active_sessions[t] = "mrodriguez"

\* C19: login, logout, auth/status and list-activities leave activities
\* unchanged; signup and unregister leave active_sessions unchanged; and a
\* successful signup or unregister on activity A changes only A.participants:
\* A's other fields and every other activity stay as they were.
C19_StoresChangedByOwnOperations ==
    [][ /\ (RequestStep
            /\ resp'.op \in {"login", "logout", "auth_status", "get_activities"})
            => activities' = activities
        /\ RosterRequest
            => /\ active_sessions' = active_sessions
               /\ issued' = issued
        /\ (RosterRequest /\ resp'.status = 200)
            => /\ \A n \in (DOMAIN activities) \ {resp'.activity_name} :
                      activities'[n] = activities[n]
               /\ activities' =
                      [activities EXCEPT ![resp'.activity_name].participants =
                           activities'[resp'.activity_name].participants]
               /\ activities' # activities
      ]_vars

\* A signup has changed the roster of Chess Club, with sessions in the store
\* and every other activity as seeded.
C19_Witness ==
    /\ resp.op = "signup"
    /\ resp.status = 200
    /\ resp.activity_name = "Chess Club"
    /\ participants("Chess Club") # seed_activities["Chess Club"].participants
    /\ \A n \in (DOMAIN activities) \ {"Chess Club"} :
          activities[n] = seed_activities[n]
    /\ Cardinality(DOMAIN active_sessions) = 2

====
